---- MODULE Spec2Model ----
(***************************************************************************)
(* A model of the monkeylang2 front end: the token vocabulary              *)
(* (package token), the lexer's token stream and the parser of             *)
(* parser/parser.go.  The parser is modelled statement by statement; the   *)
(* two skip-to-semicolon loops are modelled iteration by iteration, since  *)
(* they are the only loops whose exit depends on the input.                *)
(***************************************************************************)
EXTENDS Integers, Sequences, FiniteSets, TLC

(***************************************************************************)
(* Bounds of the model.                                                    *)
(***************************************************************************)
\* longest source, in words, that Init draws from the vocabulary Words
MaxWords == 5
\* most statements of StatementForms that Init strings together
MaxStmts == 2
\* pulls beyond the end of the stream that the count of pulls tells apart
MaxSpin == 2
\* longest token stream that UnitInit hands to a parser directly
MaxTokens == 3
\* most direct calls of parser methods before ParseProgram
MaxCalls == 2

(***************************************************************************)
(* package token.                                                          *)
(***************************************************************************)
ILLEGAL == "ILLEGAL"
EOF == "INT"
IDENT == "IDENT"
INT == "INT"
ASSIGN == "="
PLUS == "+"
COMMA == ","
SEMICOLON == ";"
LPAREN == "("
RPAREN == ")"
LBRACE == "{"
RBRACE == "}"
FUNCTION == "FUNCTION"
\* token.LET (LET is a reserved word of TLA+)
LET_ == "LET"
\* referenced by the parser (token.RETURN); no keyword maps to it
RETURN == "RETURN"

Token(type, literal) == [Type |-> type, Literal |-> literal]

keywords == [w \in {"fn", "let"} |-> IF w = "fn" THEN FUNCTION ELSE LET_]

LookupIdent(ident) ==
    IF ident \in DOMAIN keywords THEN keywords[ident] ELSE IDENT

(***************************************************************************)
(* The lexer: source text to tokens.                                       *)
(***************************************************************************)
Letters ==
    {"a", "b", "c", "d", "e", "f", "g", "h", "i", "j", "k", "l", "m", "n",
     "o", "p", "q", "r", "s", "t", "u", "v", "w", "x", "y", "z", "_"}
Digits == {"0", "1", "2", "3", "4", "5", "6", "7", "8", "9"}
Whitespace == {" "}

Char(s, i) == SubSeq(s, i, i)

\* the first index at or after i whose character is outside class
RECURSIVE RunEnd(_, _, _)
RunEnd(s, i, class) ==
    IF i > Len(s) \/ Char(s, i) \notin class THEN i
    ELSE RunEnd(s, i + 1, class)

SymbolType(c) ==
    CASE c = "=" -> ASSIGN
      [] c = "+" -> PLUS
      [] c = "," -> COMMA
      [] c = ";" -> SEMICOLON
      [] c = "(" -> LPAREN
      [] c = ")" -> RPAREN
      [] c = "{" -> LBRACE
      [] c = "}" -> RBRACE
      [] OTHER -> ILLEGAL

\* the tokens of s from character i on, without the end-of-input token
RECURSIVE Lex(_, _)
Lex(s, i) ==
    IF i > Len(s) THEN << >>
    ELSE LET c == Char(s, i) IN
         IF c \in Whitespace THEN Lex(s, i + 1)
         ELSE IF c \in Letters THEN
             LET j == RunEnd(s, i, Letters)
                 w == SubSeq(s, i, j - 1)
             IN  <<Token(LookupIdent(w), w)>> \o Lex(s, j)
         ELSE IF c \in Digits THEN
             LET j == RunEnd(s, i, Digits)
             IN  <<Token(INT, SubSeq(s, i, j - 1))>> \o Lex(s, j)
         ELSE <<Token(SymbolType(c), c)>> \o Lex(s, i + 1)

Tokenize(s) == Lex(s, 1)

EOFToken == Token(EOF, "")

(***************************************************************************)
(* The sources Init draws from.                                            *)
(***************************************************************************)
Words == {"let", "return", "x", "5", "=", ";", "@"}

RECURSIVE Join(_)
Join(ws) ==
    IF ws = << >> THEN ""
    ELSE IF Len(ws) = 1 THEN ws[1]
    ELSE ws[1] \o " " \o Join(Tail(ws))

RECURSIVE Concat(_)
Concat(ss) == IF ss = << >> THEN "" ELSE Head(ss) \o Concat(Tail(ss))

SeqsUpTo(S, n) == UNION {[1..k -> S] : k \in 0..n}

StatementForms ==
    {"let x = 5;", "let = 5;", "let = x;", "let x 5;", "return 10;",
     "foobar;", "5;", "let y = 10", "@;", "= x;"}

Sources ==
    {Join(ws) : ws \in SeqsUpTo(Words, MaxWords)}
      \cup {Concat(ss) : ss \in SeqsUpTo(StatementForms, MaxStmts)}
      \cup {"let = 5; let = 6;", "let foobar = x + 5;", "return 10"}

(***************************************************************************)
(* package ast: the nodes the parser builds.  A statement is the interface *)
(* value parseStatement returns: its dynamic type and whether the pointer  *)
(* it holds is nil.                                                        *)
(***************************************************************************)
\* the nil interface value (no dynamic type)
NoNode == [type |-> "nil"]

Identifier(tok) ==
    [type |-> "*ast.Identifier", Token |-> tok, Value |-> tok.Literal]

IntegerLiteral(tok, value) ==
    [type |-> "*ast.IntegerLiteral", Token |-> tok, Value |-> value]

LetStatement(tok, name) ==
    [type |-> "*ast.LetStatement", isNil |-> FALSE, Token |-> tok,
     Name |-> name, Value |-> NoNode]

\* the nil *ast.LetStatement that parseLetStatement returns on failure
NilLetStatement == [type |-> "*ast.LetStatement", isNil |-> TRUE]

ReturnStatement(tok) ==
    [type |-> "*ast.ReturnStatement", isNil |-> FALSE, Token |-> tok,
     ReturnValue |-> NoNode]

ExpressionStatement(tok, expr) ==
    [type |-> "*ast.ExpressionStatement", isNil |-> FALSE, Token |-> tok,
     Expression |-> expr]

(***************************************************************************)
(* The state.                                                              *)
(***************************************************************************)
VARIABLES
    source,          \* the source text handed to the lexer
    stream,          \* the tokens the lexer yields before end-of-input
    pulled,          \* how many tokens the parser has pulled from the lexer,
                     \* exact up to PulledCap
    curToken,        \* Parser.curToken
    peekToken,       \* Parser.peekToken
    errors,          \* Parser.errors
    prefixParseFns,  \* Parser.prefixParseFns
    infixParseFns,   \* Parser.infixParseFns
    statements,      \* program.Statements of the running ParseProgram
    stmt,            \* the statement a skip loop is about to return
    pc,              \* where control is
    hist             \* history: the last call of a parser method and what it
                     \* returned, and counts of calls and loop iterations

vars == <<source, stream, pulled, curToken, peekToken, errors,
          prefixParseFns, infixParseFns, statements, stmt, pc, hist>>

\* the fields of the Parser that the parse functions read and write
P == [curToken |-> curToken, peekToken |-> peekToken, pulled |-> pulled,
      errors |-> errors]

\* a Go map: nil until made
NilMap == [isNil |-> TRUE, entries |-> << >>]
MakeMap == [isNil |-> FALSE, entries |-> << >>]

(***************************************************************************)
(* Parser: the token cursor.                                               *)
(***************************************************************************)
\* Lexer.NextToken when n tokens have been handed out already
NextToken(n) == IF n < Len(stream) THEN stream[n + 1] ELSE EOFToken

\* the count of pulls is kept exactly up to here: every pull beyond the end
\* of the stream yields the same end-of-input token
PulledCap == Len(stream) + 2 + MaxSpin

CountPull(n) == IF n < PulledCap THEN n + 1 ELSE n

\* nextToken that drops the token after peekToken
nextToken_SkipsToken(p) ==
    [p EXCEPT !.curToken = p.peekToken,
              !.peekToken = NextToken(p.pulled + 1),
              !.pulled = CountPull(p.pulled)]

nextToken(p) ==
    [p EXCEPT !.curToken = p.peekToken,
              !.peekToken = NextToken(p.pulled),
              !.pulled = CountPull(p.pulled)]

curTokenIs(p, t) == p.curToken.Type = t

peekTokenIs(p, t) == p.peekToken.Type = t

\* peekError that reports the kind of curToken as the kind found
peekError_NamesCurToken(p, t) ==
    [p EXCEPT !.errors =
        Append(@, "expected next token to be " \o t \o ", got "
                    \o p.curToken.Type \o " instead")]

peekError(p, t) ==
    [p EXCEPT !.errors =
        Append(@, "expected next token to be " \o t \o ", got "
                    \o p.peekToken.Type \o " instead")]

\* expectPeek that reports a mismatch by its result only
expectPeek_Silent(p, t) ==
    IF peekTokenIs(p, t)
    THEN [p |-> nextToken(p), ok |-> TRUE]
    ELSE [p |-> p, ok |-> FALSE]

\* the parser afterwards and the boolean returned
expectPeek(p, t) ==
    IF peekTokenIs(p, t)
    THEN [p |-> nextToken(p), ok |-> TRUE]
    ELSE [p |-> peekError(p, t), ok |-> FALSE]

(***************************************************************************)
(* strconv.ParseInt(s, 0, 64) on the literal of a token.                   *)
(***************************************************************************)
DigitValue ==
    ("0" :> 0) @@ ("1" :> 1) @@ ("2" :> 2) @@ ("3" :> 3) @@ ("4" :> 4) @@
    ("5" :> 5) @@ ("6" :> 6) @@ ("7" :> 7) @@ ("8" :> 8) @@ ("9" :> 9)

\* 1<<63 - 1 in decimal
MaxInt64Digits == "9223372036854775807"
\* 1<<63 - 1 has 21 octal digits, all of them 7
MaxInt64OctalLen == 21

\* base 0: a leading "0" followed by more digits selects base 8
BaseOf(s) == IF Len(s) > 1 /\ Char(s, 1) = "0" THEN 8 ELSE 10

\* the digits after the base prefix
DigitsOf(s) == IF BaseOf(s) = 8 THEN SubSeq(s, 2, Len(s)) ELSE s

RECURSIVE StripZeros(_)
StripZeros(s) ==
    IF Len(s) > 1 /\ Char(s, 1) = "0" THEN StripZeros(SubSeq(s, 2, Len(s)))
    ELSE s

AllDigits(s, base) ==
    \A i \in 1..Len(s) :
        Char(s, i) \in Digits /\ DigitValue[Char(s, i)] < base

\* s <= t for two digit strings of the same length
RECURSIVE DigitsLeq(_, _)
DigitsLeq(s, t) ==
    IF s = "" THEN TRUE
    ELSE IF DigitValue[Char(s, 1)] < DigitValue[Char(t, 1)] THEN TRUE
    ELSE IF DigitValue[Char(s, 1)] > DigitValue[Char(t, 1)] THEN FALSE
    ELSE DigitsLeq(SubSeq(s, 2, Len(s)), SubSeq(t, 2, Len(t)))

InInt64Range(s) ==
    LET d == StripZeros(DigitsOf(s)) IN
    IF BaseOf(s) = 8 THEN Len(d) =< MaxInt64OctalLen
    ELSE \/ Len(d) < Len(MaxInt64Digits)
         \/ Len(d) = Len(MaxInt64Digits) /\ DigitsLeq(d, MaxInt64Digits)

RECURSIVE DigitsValue(_, _, _)
DigitsValue(s, base, acc) ==
    IF s = "" THEN acc
    ELSE DigitsValue(SubSeq(s, 2, Len(s)), base,
                     acc * base + DigitValue[Char(s, 1)])

\* err # nil is ok = FALSE
ParseInt(s) ==
    IF s = "" \/ ~AllDigits(DigitsOf(s), BaseOf(s)) \/ ~InInt64Range(s)
    THEN [ok |-> FALSE, value |-> 0]
    ELSE [ok |-> TRUE, value |-> DigitsValue(DigitsOf(s), BaseOf(s), 0)]

(***************************************************************************)
(* Parser: expressions.  Each parse function yields the parser afterwards  *)
(* and the node it returns.                                                *)
(***************************************************************************)
LOWEST == 1
EQUALS == 2
LESSGREATER == 3
SUM == 4
PRODUCT == 5
PREFIX == 6
CALL == 7

parseIdentifier(p) == [p |-> p, node |-> Identifier(p.curToken)]

\* parseIntegerLiteral that returns nil on a failed conversion and records
\* nothing
parseIntegerLiteral_SilentFailure(p) ==
    LET r == ParseInt(p.curToken.Literal) IN
    IF ~r.ok THEN [p |-> p, node |-> NoNode]
    ELSE [p |-> p, node |-> IntegerLiteral(p.curToken, r.value)]

parseIntegerLiteral(p) ==
    LET r == ParseInt(p.curToken.Literal) IN
    IF ~r.ok
    THEN [p |-> [p EXCEPT !.errors =
                    Append(@, "could not parse \"" \o p.curToken.Literal
                                \o "\" as integer")],
          node |-> NoNode]
    ELSE [p |-> p, node |-> IntegerLiteral(p.curToken, r.value)]

\* calling the function value registered under a name
CallPrefix(fn, p) ==
    IF fn = "parseIdentifier" THEN parseIdentifier(p)
    ELSE parseIntegerLiteral(p)

\* parseExpression that consumes the token after the prefix expression
\* unless it is a semicolon
parseExpression_ConsumesPeek(p, fns, precedence) ==
    IF p.curToken.Type \notin DOMAIN fns.entries
    THEN [p |-> p, node |-> NoNode]
    ELSE LET r == CallPrefix(fns.entries[p.curToken.Type], p)
         IN  [p |-> IF peekTokenIs(r.p, SEMICOLON) THEN r.p
                    ELSE nextToken(r.p),
              node |-> r.node]

\* fns is Parser.prefixParseFns
parseExpression(p, fns, precedence) ==
    IF p.curToken.Type \notin DOMAIN fns.entries
    THEN [p |-> p, node |-> NoNode]
    ELSE CallPrefix(fns.entries[p.curToken.Type], p)

(***************************************************************************)
(* Parser: statements.                                                     *)
(***************************************************************************)
\* parseExpressionStatement that leaves a trailing semicolon unconsumed
parseExpressionStatement_KeepSemicolon(p, fns) ==
    LET r == parseExpression(p, fns, LOWEST)
    IN  [p |-> r.p, node |-> ExpressionStatement(p.curToken, r.node)]

\* parseExpressionStatement that takes the statement's token once the
\* expression and the semicolon are behind it
parseExpressionStatement_TokenAfterParse(p, fns) ==
    LET r == parseExpression(p, fns, LOWEST)
        q == IF peekTokenIs(r.p, SEMICOLON) THEN nextToken(r.p) ELSE r.p
    IN  [p |-> q, node |-> ExpressionStatement(q.curToken, r.node)]

\* parseExpressionStatement that advances whatever peekToken is
parseExpressionStatement_AlwaysAdvances(p, fns) ==
    LET r == parseExpression(p, fns, LOWEST)
    IN  [p |-> nextToken(r.p), node |-> ExpressionStatement(p.curToken, r.node)]

parseExpressionStatement(p, fns) ==
    LET r == parseExpression(p, fns, LOWEST)
        s == ExpressionStatement(p.curToken, r.node)
    IN  [p |-> IF peekTokenIs(r.p, SEMICOLON) THEN nextToken(r.p) ELSE r.p,
         node |-> s]

\* parseLetStatement with stmt.Name built from the token parseLetStatement
\* was entered on
parseLetStatement_NameBeforeAdvance(p) ==
    LET e1 == expectPeek(p, IDENT)
        name == Identifier(p.curToken)
        e2 == expectPeek(e1.p, ASSIGN)
    IN  IF ~e1.ok THEN [p |-> e1.p, node |-> NilLetStatement, skip |-> FALSE]
        ELSE IF ~e2.ok
        THEN [p |-> e2.p, node |-> NilLetStatement, skip |-> FALSE]
        ELSE [p |-> e2.p, node |-> LetStatement(p.curToken, name),
              skip |-> TRUE]

\* parseLetStatement up to its skip loop; skip says whether the loop is
\* entered, and node is what is returned when it is not
parseLetStatement(p) ==
    LET e1 == expectPeek(p, IDENT)
        name == Identifier(e1.p.curToken)
        e2 == expectPeek(e1.p, ASSIGN)
    IN  IF ~e1.ok THEN [p |-> e1.p, node |-> NilLetStatement, skip |-> FALSE]
        ELSE IF ~e2.ok
        THEN [p |-> e2.p, node |-> NilLetStatement, skip |-> FALSE]
        ELSE [p |-> e2.p, node |-> LetStatement(p.curToken, name),
              skip |-> TRUE]

\* parseReturnStatement that advances twice before its skip loop
parseReturnStatement_AdvancesTwice(p) ==
    [p |-> nextToken(nextToken(p)), node |-> ReturnStatement(p.curToken),
     skip |-> TRUE]

\* parseReturnStatement up to its skip loop
parseReturnStatement(p) ==
    [p |-> nextToken(p), node |-> ReturnStatement(p.curToken), skip |-> TRUE]

\* the interface value returned, or the skip loop control has reached
parseStatement(p, fns) ==
    CASE p.curToken.Type = LET_ -> parseLetStatement(p)
      [] p.curToken.Type = RETURN -> parseReturnStatement(p)
      [] OTHER ->
            LET r == parseExpressionStatement(p, fns)
            IN  [p |-> r.p, node |-> r.node, skip |-> FALSE]

\* stmt != nil on an interface value: true of a nil pointer with a type
NotNil(node) == node.type # "nil"

\* the body of ParseProgram's loop after parseStatement has returned s
AppendStatement(stmts, s) == IF NotNil(s) THEN Append(stmts, s) ELSE stmts

registerPrefix(fns, tokenType, fn) ==
    [fns EXCEPT !.entries = (tokenType :> fn) @@ @]

(***************************************************************************)
(* The operations.                                                         *)
(***************************************************************************)
SetParser(p) ==
    /\ curToken' = p.curToken
    /\ peekToken' = p.peekToken
    /\ pulled' = p.pulled
    /\ errors' = p.errors

\* op, arg, prec: the method last called and its argument (a token kind or
\* a precedence); at: the position in the stream curToken had when it was
\* called; ok, node: what it returned;
\* n: direct calls of parser methods so far; iters: completed iterations of
\* ParseProgram's loop
NoHistory ==
    [op |-> "", arg |-> "", prec |-> 0, at |-> 0, ok |-> FALSE,
     node |-> NoNode, n |-> 0, iters |-> 0]

Init ==
    /\ source \in Sources
    /\ stream = Tokenize(source)
    /\ pulled = 0
    /\ curToken = Token("", "")
    /\ peekToken = Token("", "")
    /\ errors = << >>
    /\ prefixParseFns = NilMap
    /\ infixParseFns = NilMap
    /\ statements = << >>
    /\ stmt = NoNode
    /\ pc = "New"
    /\ hist = NoHistory

New ==
    /\ pc = "New"
    /\ prefixParseFns' =
         registerPrefix(registerPrefix(MakeMap, IDENT, "parseIdentifier"),
                        INT, "parseIntegerLiteral")
    /\ SetParser(nextToken([curToken |-> curToken,
                            peekToken |-> NextToken(pulled),
                            pulled |-> CountPull(pulled),
                            errors |-> << >>]))
    /\ pc' = "ready"
    /\ UNCHANGED <<source, stream, infixParseFns, statements, stmt, hist>>

\* ParseProgram up to its loop
ParseProgram ==
    /\ pc = "ready"
    /\ statements' = << >>
    /\ pc' = "loop"
    /\ UNCHANGED <<source, stream, pulled, curToken, peekToken, errors,
                   prefixParseFns, infixParseFns, stmt, hist>>

\* one iteration of ParseProgram's loop, or its part up to a skip loop
ParseProgramLoop ==
    /\ pc = "loop"
    /\ curToken.Type # EOF
    /\ LET r == parseStatement(P, prefixParseFns) IN
       IF r.skip
       THEN /\ SetParser(r.p)
            /\ stmt' = r.node
            /\ pc' = IF curToken.Type = LET_ THEN "skipLet" ELSE "skipReturn"
            /\ hist' = [hist EXCEPT !.op = "parseStatement", !.arg = "",
                                    !.at = pulled - 1, !.node = r.node]
            /\ UNCHANGED statements
       ELSE /\ statements' = AppendStatement(statements, r.node)
            /\ SetParser(nextToken(r.p))
            /\ hist' = [hist EXCEPT !.op = "parseStatement", !.arg = "",
                                    !.at = pulled - 1, !.node = r.node,
                                    !.iters = @ + 1]
            /\ UNCHANGED <<stmt, pc>>
    /\ UNCHANGED <<source, stream, prefixParseFns, infixParseFns>>

\* ParseProgram's loop ends and the Program is returned
ParseProgramReturn ==
    /\ pc = "loop"
    /\ curToken.Type = EOF
    /\ pc' = "done"
    /\ UNCHANGED <<source, stream, pulled, curToken, peekToken, errors,
                   prefixParseFns, infixParseFns, statements, stmt, hist>>

\* the test of the skip loop of parseLetStatement / parseReturnStatement
\* finds a token other than a semicolon
SkipTest ==
    /\ pc \in {"skipLet", "skipReturn"}
    /\ ~curTokenIs(P, SEMICOLON)
    /\ pc' = IF pc = "skipLet" THEN "skipLetNext" ELSE "skipReturnNext"
    /\ UNCHANGED <<source, stream, pulled, curToken, peekToken, errors,
                   prefixParseFns, infixParseFns, statements, stmt, hist>>

\* the body of the skip loop
SkipNext ==
    /\ pc \in {"skipLetNext", "skipReturnNext"}
    /\ SetParser(nextToken(P))
    /\ pc' = IF pc = "skipLetNext" THEN "skipLet" ELSE "skipReturn"
    /\ UNCHANGED <<source, stream, prefixParseFns, infixParseFns, statements,
                   stmt, hist>>

\* the skip loop ends: the statement is returned and the iteration of
\* ParseProgram's loop completes
SkipReturn ==
    /\ pc \in {"skipLet", "skipReturn"}
    /\ curTokenIs(P, SEMICOLON)
    /\ statements' = AppendStatement(statements, stmt)
    /\ SetParser(nextToken(P))
    /\ stmt' = NoNode
    /\ pc' = "loop"
    /\ hist' = [hist EXCEPT !.node = stmt, !.iters = @ + 1]
    /\ UNCHANGED <<source, stream, prefixParseFns, infixParseFns>>

Next ==
    \/ New
    \/ ParseProgram
    \/ ParseProgramLoop
    \/ ParseProgramReturn
    \/ SkipTest
    \/ SkipNext
    \/ SkipReturn

Spec == Init /\ [][Next]_vars

\* ParseProgram is straight-line code: it runs while it has a step to take
FairSpec == Spec /\ WF_vars(Next)

TypeOK ==
    /\ pc \in {"New", "ready", "loop", "skipLet", "skipLetNext", "skipReturn",
              "skipReturnNext", "done", "panic"}
    /\ pulled \in 0..PulledCap

(***************************************************************************)
(* Shapes of sources, told from their tokens.                              *)
(***************************************************************************)
Types(toks) == [i \in 1..Len(toks) |-> toks[i].Type]

Returned == pc = "done"

\* no token of toks at positions i..j is a semicolon
NoSemicolon(toks, i, j) == \A k \in i..j : toks[k].Type # SEMICOLON

\* let <identifier> = <tokens> ;
IsLetSource ==
    /\ Len(stream) >= 4
    /\ stream[1].Type = LET_ /\ stream[1].Literal = "let"
    /\ stream[2].Type = IDENT
    /\ stream[3].Type = ASSIGN
    /\ stream[Len(stream)].Type = SEMICOLON
    /\ NoSemicolon(stream, 4, Len(stream) - 1)

\* return <tokens> ;
IsReturnSource ==
    /\ Len(stream) >= 2
    /\ stream[1].Literal = "return"
    /\ stream[Len(stream)].Type = SEMICOLON
    /\ NoSemicolon(stream, 2, Len(stream) - 1)

\* <integer literal> ;
IsIntegerSource ==
    /\ Len(stream) = 2
    /\ stream[1].Literal # "" /\ Char(stream[1].Literal, 1) \in Digits
    /\ stream[2].Type = SEMICOLON

\* <identifier> ;
IsIdentifierSource ==
    /\ Len(stream) = 2
    /\ stream[1].Type = IDENT
    /\ stream[2].Type = SEMICOLON

\* let <identifier> <integer literal> ;
IsLetMissingAssignSource ==
    /\ Len(stream) = 4
    /\ stream[1].Type = LET_
    /\ stream[2].Type = IDENT
    /\ stream[3].Literal # "" /\ Char(stream[3].Literal, 1) \in Digits
    /\ stream[4].Type = SEMICOLON

HasPrefix(s, pre) == Len(s) >= Len(pre) /\ SubSeq(s, 1, Len(pre)) = pre

(***************************************************************************)
(* C1: for every source, with or without the semicolon that ends a let or  *)
(* return statement, ParseProgram terminates: it eventually returns.       *)
(* Stated under FairSpec.                                                  *)
(***************************************************************************)
C1_ParseProgramTerminates == <>Returned

(***************************************************************************)
(* C2: parsing one integer literal followed by a semicolon ("5;") returns  *)
(* one statement, an ExpressionStatement whose expression is the           *)
(* IntegerLiteral of the literal's value, and no error.                    *)
(***************************************************************************)
C2_IntegerLiteralStatement ==
    (Returned /\ IsIntegerSource) =>
        /\ errors = << >>
        /\ Len(statements) = 1
        /\ statements[1].type = "*ast.ExpressionStatement"
        /\ statements[1].Expression.type = "*ast.IntegerLiteral"
        /\ statements[1].Expression.Token = stream[1]
        /\ (source = "5;" => statements[1].Expression.Value = 5)

(***************************************************************************)
(* C3: when ParseProgram returns, every token of the source has been held  *)
(* in curToken, and curToken is the end-of-input token, not a token of the *)
(* source.                                                                 *)
(***************************************************************************)
C3_ReturnsOnlyAtEndOfInput ==
    Returned =>
        /\ pulled - 1 > Len(stream)
        /\ curToken = EOFToken

(***************************************************************************)
(* C4: parsing `let <identifier> = <tokens> ;` returns one statement, a    *)
(* LetStatement whose Name.Value is the identifier's text, and no error.   *)
(***************************************************************************)
C4_LetStatement ==
    (Returned /\ IsLetSource) =>
        /\ errors = << >>
        /\ Len(statements) = 1
        /\ statements[1].type = "*ast.LetStatement"
        /\ ~statements[1].isNil
        /\ statements[1].Name.type = "*ast.Identifier"
        /\ statements[1].Name.Value = stream[2].Literal

C4_Witness ==
    /\ Returned
    /\ source = "let x = 5;"
    /\ IsLetSource
    /\ Len(statements) = 1
    /\ statements[1].Name.Value = "x"

(***************************************************************************)
(* C5: parsing "let x 5;" (an integer literal where `=` is expected)       *)
(* returns zero statements and exactly one error, which names ASSIGN as    *)
(* the expected token kind.                                                *)
(***************************************************************************)
C5_LetMissingAssign ==
    (Returned /\ IsLetMissingAssignSource) =>
        /\ Len(statements) = 0
        /\ Len(errors) = 1
        /\ HasPrefix(errors[1], "expected next token to be " \o ASSIGN \o ",")

(***************************************************************************)
(* C6: parsing `return <tokens> ;` returns one statement, and it is a      *)
(* ReturnStatement: the word `return` is a token of the RETURN kind and is *)
(* dispatched to parseReturnStatement.                                     *)
(***************************************************************************)
C6_ReturnStatement ==
    (Returned /\ IsReturnSource) =>
        /\ stream[1].Type = RETURN
        /\ Len(statements) = 1
        /\ statements[1].type = "*ast.ReturnStatement"

(***************************************************************************)
(* C7: parsing one identifier followed by a semicolon ("foobar;") returns  *)
(* one statement, an ExpressionStatement whose expression is an Identifier *)
(* whose Value is the identifier's text, and no error.                     *)
(***************************************************************************)
C7_IdentifierStatement ==
    (Returned /\ IsIdentifierSource) =>
        /\ errors = << >>
        /\ Len(statements) = 1
        /\ statements[1].type = "*ast.ExpressionStatement"
        /\ statements[1].Expression.type = "*ast.Identifier"
        /\ statements[1].Expression.Value = stream[1].Literal

C7_Witness ==
    /\ Returned
    /\ source = "foobar;"
    /\ IsIdentifierSource
    /\ Len(statements) = 1
    /\ statements[1].Expression.Value = "foobar"

(***************************************************************************)
(* C8: whenever parseExpression is entered with a curToken whose kind has  *)
(* no registered prefix parse function, it returns no node and exactly one *)
(* error string is appended to the error list.                             *)
(***************************************************************************)
\* control is about to enter parseExpression (through parseStatement's
\* default branch) on a token kind without a prefix parse function
EntersParseExpressionWithoutPrefix ==
    /\ pc = "loop"
    /\ curToken.Type \notin {EOF, LET_, RETURN}
    /\ curToken.Type \notin DOMAIN prefixParseFns.entries

C8_NoPrefixRecordsError ==
    [][EntersParseExpressionWithoutPrefix =>
         /\ parseExpression(P, prefixParseFns, LOWEST).node = NoNode
         /\ Len(errors') = Len(errors) + 1]_vars

(***************************************************************************)
(* C9: a statement whose parse fails is omitted from the tree: every       *)
(* ExpressionStatement of the Program ParseProgram returns has a set       *)
(* (non-nil) Expression.                                                   *)
(***************************************************************************)
C9_ExpressionStatementsHaveExpression ==
    Returned =>
        \A i \in 1..Len(statements) :
            statements[i].type = "*ast.ExpressionStatement"
                => statements[i].Expression.type # "nil"

(***************************************************************************)
(* C10: accumulate and continue: a source of k malformed statements, each  *)
(* a `let` missing its identifier ("let = 5; let = 6;"), ends with at      *)
(* least one recorded error for each of the k statements, in source order, *)
(* from one ParseProgram call.                                             *)
(***************************************************************************)
\* the stream is k >= 1 statements `let = <token> ;`
IsMalformedLets ==
    /\ Len(stream) >= 4
    /\ Len(stream) % 4 = 0
    /\ \A i \in 1..Len(stream) :
          CASE i % 4 = 1 -> stream[i].Type = LET_
            [] i % 4 = 2 -> stream[i].Type = ASSIGN
            [] i % 4 = 3 -> stream[i].Type \notin {SEMICOLON, LET_}
            [] OTHER -> stream[i].Type = SEMICOLON

MissingIdentError ==
    "expected next token to be " \o IDENT \o ", got " \o ASSIGN \o " instead"

C10_AccumulateAndContinue ==
    (Returned /\ IsMalformedLets) =>
        /\ Len(errors) >= Len(stream) \div 4
        /\ \A k \in 1..(Len(stream) \div 4) : errors[k] = MissingIdentError

(***************************************************************************)
(* The parser's methods called one by one, on a parser built over any      *)
(* token stream: what a caller inside package parser can do between New    *)
(* and ParseProgram.                                                       *)
(***************************************************************************)
UnitTokens ==
    {Token(LET_, "let"), Token(RETURN, "return"), Token(IDENT, "x"),
     Token(INT, "5"), Token(ASSIGN, "="), Token(SEMICOLON, ";")}

IntLiterals ==
    {"0", "5", "10", "010", "08", "2147483647", "9223372036854775808",
     "99999999999999999999"}

UnitStreams ==
    SeqsUpTo(UnitTokens, MaxTokens)
      \cup {<<Token(ILLEGAL, "@")>>, <<Token(ILLEGAL, "@"), Token(SEMICOLON, ";")>>}
      \cup {<<Token(INT, l)>> : l \in IntLiterals}
      \cup {<<Token(INT, l), Token(SEMICOLON, ";")>> : l \in IntLiterals}

\* the kinds and function values the direct calls pass
CallKinds == {IDENT, ASSIGN}
RegisterKinds == {IDENT, PLUS}
Precedences == {LOWEST, CALL}

\* p.infixParseFns[tokenType] = fn: an assignment to an entry of a nil map
\* panics
registerInfix(fns, tokenType, fn) ==
    IF fns.isNil THEN [panic |-> TRUE, fns |-> fns]
    ELSE [panic |-> FALSE,
          fns |-> [fns EXCEPT !.entries = (tokenType :> fn) @@ @]]

UnitInit ==
    /\ source = ""
    /\ stream \in UnitStreams
    /\ pulled = 0
    /\ curToken = Token("", "")
    /\ peekToken = Token("", "")
    /\ errors = << >>
    /\ prefixParseFns = NilMap
    /\ infixParseFns = NilMap
    /\ statements = << >>
    /\ stmt = NoNode
    /\ pc = "New"
    /\ hist = NoHistory

CanCall ==
    /\ pc = "ready"
    /\ hist.n < MaxCalls
    /\ pulled < PulledCap

Called(op, arg, prec, ok, node) ==
    [hist EXCEPT !.op = op, !.arg = arg, !.prec = prec, !.at = pulled - 1,
                 !.ok = ok, !.node = node, !.n = @ + 1]

CallNextToken ==
    /\ CanCall
    /\ SetParser(nextToken(P))
    /\ hist' = Called("nextToken", "", 0, FALSE, NoNode)
    /\ UNCHANGED <<source, stream, prefixParseFns, infixParseFns, statements,
                   stmt, pc>>

CallExpectPeek ==
    /\ CanCall
    /\ \E t \in CallKinds :
         LET r == expectPeek(P, t) IN
         /\ SetParser(r.p)
         /\ hist' = Called("expectPeek", t, 0, r.ok, NoNode)
    /\ UNCHANGED <<source, stream, prefixParseFns, infixParseFns, statements,
                   stmt, pc>>

CallParseExpression ==
    /\ CanCall
    /\ \E precedence \in Precedences :
         LET r == parseExpression(P, prefixParseFns, precedence) IN
         /\ SetParser(r.p)
         /\ hist' = Called("parseExpression", "", precedence, FALSE, r.node)
    /\ UNCHANGED <<source, stream, prefixParseFns, infixParseFns, statements,
                   stmt, pc>>

CallParseExpressionStatement ==
    /\ CanCall
    /\ LET r == parseExpressionStatement(P, prefixParseFns) IN
         /\ SetParser(r.p)
         /\ hist' = Called("parseExpressionStatement", "", 0, FALSE, r.node)
    /\ UNCHANGED <<source, stream, prefixParseFns, infixParseFns, statements,
                   stmt, pc>>

CallParseIntegerLiteral ==
    /\ CanCall
    /\ LET r == parseIntegerLiteral(P) IN
         /\ SetParser(r.p)
         /\ hist' = Called("parseIntegerLiteral", "", 0, FALSE, r.node)
    /\ UNCHANGED <<source, stream, prefixParseFns, infixParseFns, statements,
                   stmt, pc>>

CallRegisterPrefix ==
    /\ CanCall
    /\ \E t \in RegisterKinds :
         /\ prefixParseFns' = registerPrefix(prefixParseFns, t, "parseIdentifier")
         /\ hist' = Called("registerPrefix", t, 0, FALSE, NoNode)
    /\ UNCHANGED <<source, stream, pulled, curToken, peekToken, errors,
                   infixParseFns, statements, stmt, pc>>

CallRegisterInfix ==
    /\ CanCall
    /\ \E t \in RegisterKinds :
         LET r == registerInfix(infixParseFns, t, "parseInfixExpression") IN
         /\ infixParseFns' = r.fns
         /\ pc' = IF r.panic THEN "panic" ELSE pc
         /\ hist' = Called("registerInfix", t, 0, FALSE, NoNode)
    /\ UNCHANGED <<source, stream, pulled, curToken, peekToken, errors,
                   prefixParseFns, statements, stmt>>

UnitNext ==
    \/ New
    \/ CallNextToken
    \/ CallExpectPeek
    \/ CallParseExpression
    \/ CallParseExpressionStatement
    \/ CallParseIntegerLiteral
    \/ CallRegisterPrefix
    \/ CallRegisterInfix
    \/ ParseProgram
    \/ ParseProgramLoop
    \/ ParseProgramReturn
    \/ SkipTest
    \/ SkipNext
    \/ SkipReturn

UnitSpec == UnitInit /\ [][UnitNext]_vars

(***************************************************************************)
(* C11: two-token lookahead.  New pulls exactly two tokens, so curToken is *)
(* the first token of the source and peekToken the second; and in every    *)
(* state reachable afterwards through any sequence of parser operations,   *)
(* curToken and peekToken are the tokens at two consecutive positions of   *)
(* the lexer's stream (end-of-input once it is exhausted), and the parser  *)
(* has pulled exactly the tokens up to peekToken's position, never more.   *)
(***************************************************************************)
\* the token at position k of the lexer's stream, positions counted from 1
TokenAt(k) == IF k >= 1 /\ k =< Len(stream) THEN stream[k] ELSE EOFToken

C11_TwoTokenLookahead ==
    pc # "New" =>
        /\ pulled >= 2
        /\ curToken = TokenAt(pulled - 1)
        /\ peekToken = TokenAt(pulled)
        /\ (pc = "ready" /\ hist.n = 0) => pulled = 2

C11_Witness ==
    /\ pc = "ready"
    /\ hist.n >= 1
    /\ Len(stream) >= 3
    /\ pulled = 3
    /\ curToken = stream[2]
    /\ peekToken = stream[3]

(***************************************************************************)
(* C13: whenever parseLetStatement returns a node, and whenever            *)
(* parseReturnStatement returns, curToken is the SEMICOLON that ends the   *)
(* statement: the first semicolon at or after the position following `=`   *)
(* (let), or at or after the position following `return` (return); and the *)
(* statement's value is unset.                                             *)
(***************************************************************************)
\* the skip loop of parseLetStatement / parseReturnStatement is left
SkipLoopReturns == pc \in {"skipLet", "skipReturn"} /\ pc' = "loop"

IsCall(op) == hist'.n = hist.n + 1 /\ hist'.op = op

C14_ExpectPeekFrame ==
    [][IsCall("expectPeek") =>
         IF peekToken.Type = hist'.arg
         THEN /\ hist'.ok
              /\ curToken' = peekToken
              /\ peekToken' = TokenAt(pulled + 1)
              /\ pulled' = pulled + 1
              /\ errors' = errors
         ELSE /\ ~hist'.ok
              /\ curToken' = curToken
              /\ peekToken' = peekToken
              /\ pulled' = pulled
              /\ Len(errors') = Len(errors) + 1
              /\ SubSeq(errors', 1, Len(errors)) = errors
              /\ errors'[Len(errors')] =
                   "expected next token to be " \o hist'.arg \o ", got "
                     \o peekToken.Type \o " instead"]_vars

\* expectPeek has succeeded once and then failed
C14_Witness ==
    /\ pc = "ready"
    /\ hist.n = 2
    /\ hist.op = "expectPeek"
    /\ ~hist.ok
    /\ pulled = 3
    /\ Len(errors) = 1
    /\ curToken.Type = IDENT
    /\ peekToken.Type # curToken.Type

(***************************************************************************)
(* C15: whenever parseStatement returns no node, at least one error string *)
(* was appended to the error list during that call; hence, when            *)
(* ParseProgram returns, the statements for which no node was returned are *)
(* no more than the entries of Errors().                                   *)
(***************************************************************************)
\* a nil interface value, or a nil pointer inside one
IsNoNode(node) == IF node.type = "nil" THEN TRUE ELSE node.isNil

\* statements for which parseStatement returned no node: the iterations of
\* ParseProgram's loop that appended nothing, and the nil entries appended
NoNodeCount(stmts, iters) ==
    (iters - Len(stmts))
      + Cardinality({i \in 1..Len(stmts) : IsNoNode(stmts[i])})

\* this step is a call of parseStatement that returns without a skip loop
ParseStatementReturns == pc = "loop" /\ pc' = "loop"

C15_NoNodeMeansError ==
    [][/\ (ParseStatementReturns /\ IsNoNode(hist'.node))
            => Len(errors') >= Len(errors) + 1
       /\ pc' = "done" => NoNodeCount(statements', hist'.iters) =< Len(errors')
      ]_vars

C15_Witness ==
    /\ Returned
    /\ hist.iters = 1
    /\ NoNodeCount(statements, hist.iters) = 1
    /\ Len(errors) = 1
    /\ stream[1].Type = LET_

(***************************************************************************)
(* C16: parseExpressionStatement consumes a trailing semicolon exactly     *)
(* when peekToken is SEMICOLON and otherwise advances no token; a missing  *)
(* semicolon is not an error: an identifier expression statement at end of *)
(* input without a semicolon ("foobar") gives one ExpressionStatement and  *)
(* an empty error list.                                                    *)
(***************************************************************************)
\* the stream of a source that is one identifier and nothing else
IsBareIdentifierSource == Len(stream) = 1 /\ stream[1].Type = IDENT

C16_OptionalSemicolon ==
    [][/\ IsCall("parseExpressionStatement") =>
            /\ IF peekToken.Type = SEMICOLON
               THEN /\ curToken' = peekToken
                    /\ peekToken' = TokenAt(pulled + 1)
                    /\ pulled' = pulled + 1
               ELSE /\ curToken' = curToken
                    /\ peekToken' = peekToken
                    /\ pulled' = pulled
            /\ hist'.node.type = "*ast.ExpressionStatement"
            /\ hist'.node.Expression.type # "nil" => errors' = errors
       /\ (pc' = "done" /\ hist'.n = 0 /\ IsBareIdentifierSource) =>
            /\ errors' = << >>
            /\ Len(statements') = 1
            /\ statements'[1].type = "*ast.ExpressionStatement"
            /\ statements'[1].Expression.type = "*ast.Identifier"
            /\ statements'[1].Expression.Value = stream[1].Literal
      ]_vars

C16_Witness ==
    /\ Returned
    /\ hist.n = 0
    /\ IsBareIdentifierSource
    /\ Len(statements) = 1
    /\ statements[1].Expression.type = "*ast.Identifier"
    /\ pulled = 3

(***************************************************************************)
(* C17: parseIntegerLiteral.  When curToken's literal denotes a value      *)
(* inside the signed 64-bit range it returns an IntegerLiteral with that   *)
(* value and appends no error; when the literal cannot be converted to a   *)
(* signed 64-bit integer (a digit run above 2^63-1, for one) it returns no *)
(* node, appends exactly one "could not parse ... as integer" error, and   *)
(* leaves curToken and peekToken unchanged.  A literal is read as Go reads *)
(* it with base 0: a leading 0 makes it octal.                             *)
(***************************************************************************)
\* the literals of the model that denote a 64-bit value, and the value
IntegerValue ==
    ("0" :> 0) @@ ("5" :> 5) @@ ("10" :> 10) @@ ("010" :> 8) @@
    ("2147483647" :> 2147483647)

C17_ParseIntegerLiteral ==
    [][IsCall("parseIntegerLiteral") =>
         LET l == curToken.Literal IN
         /\ curToken' = curToken
         /\ peekToken' = peekToken
         /\ pulled' = pulled
         /\ IF l \in DOMAIN IntegerValue
            THEN /\ hist'.node.type = "*ast.IntegerLiteral"
                 /\ hist'.node.Value = IntegerValue[l]
                 /\ hist'.node.Token = curToken
                 /\ errors' = errors
            ELSE /\ hist'.node = NoNode
                 /\ errors' =
                      Append(errors,
                             "could not parse \"" \o l \o "\" as integer")
      ]_vars

\* the conversion of 2^63 has failed
C17_Witness ==
    /\ hist.op = "parseIntegerLiteral"
    /\ hist.n = 1
    /\ curToken.Literal = "9223372036854775808"
    /\ hist.node = NoNode
    /\ Len(errors) = 1

(***************************************************************************)
(* C18: parseExpression(precedence), once the prefix function has given    *)
(* the left expression, loops while peekToken is not a semicolon and its   *)
(* infix precedence exceeds precedence, advancing the cursor and replacing *)
(* the left expression by the infix function's result; with no infix       *)
(* entries registered the loop runs zero times, so parseExpression returns *)
(* the prefix function's result with curToken and peekToken unchanged.     *)
(* The loop below is the algorithm of the design; the claim is that        *)
(* parseExpression behaves as it does.                                     *)
(***************************************************************************)
\* the precedence of a token kind: that of its infix entry, LOWEST without
PeekPrecedence(p, infixFns) ==
    IF p.peekToken.Type \in DOMAIN infixFns.entries THEN SUM ELSE LOWEST

\* what an infix function returns for the operator token and the left side
InfixExpression(tok, left) ==
    [type |-> "*ast.InfixExpression", Token |-> tok, Left |-> left]

RECURSIVE InfixLoop(_, _, _, _)
InfixLoop(p, left, infixFns, precedence) ==
    IF ~peekTokenIs(p, SEMICOLON) /\ precedence < PeekPrecedence(p, infixFns)
    THEN LET q == nextToken(p)
         IN  InfixLoop(q, InfixExpression(q.curToken, left), infixFns,
                       precedence)
    ELSE [p |-> p, node |-> left]

DesignParseExpression(p, fns, infixFns, precedence) ==
    IF p.curToken.Type \notin DOMAIN fns.entries
    THEN [p |-> p, node |-> NoNode]
    ELSE LET r == CallPrefix(fns.entries[p.curToken.Type], p)
         IN  InfixLoop(r.p, r.node, infixFns, precedence)

ExpressionRetainsToken(e, tok) ==
    CASE e.type = "*ast.Identifier" ->
            /\ e.Token = tok
            /\ tok.Type = IDENT
            /\ e.Value = tok.Literal
      [] e.type = "*ast.IntegerLiteral" -> e.Token = tok /\ tok.Type = INT
      [] OTHER -> e.type = "nil"

\* statement s was parsed with cur as curToken and peek as peekToken when
\* parseStatement was entered
StatementRetainsTokens(s, cur, peek) ==
    CASE IsNoNode(s) -> TRUE
      [] s.type = "*ast.LetStatement" ->
            /\ s.Token = cur
            /\ cur.Type = LET_
            /\ ExpressionRetainsToken(s.Name, peek)
            /\ s.Name.type = "*ast.Identifier"
      [] s.type = "*ast.ReturnStatement" -> s.Token = cur /\ cur.Type = RETURN
      [] s.type = "*ast.ExpressionStatement" ->
            /\ s.Token = cur
            /\ ExpressionRetainsToken(s.Expression, cur)
      [] OTHER -> FALSE

\* the tokens a node carries are tokens of the stream, of the node's kind
CarriesOwnTokens(s) ==
    \E i \in 1..Len(stream) :
        StatementRetainsTokens(s, stream[i], TokenAt(i + 1))

C19_NodesRetainTokens ==
    [][/\ (pc = "loop" /\ pc' # "done") =>
            /\ StatementRetainsTokens(hist'.node, curToken, peekToken)
            /\ pc' = "loop" => statements' = Append(statements, hist'.node)
            /\ pc' # "loop" => stmt' = hist'.node
       /\ SkipLoopReturns => statements' = Append(statements, stmt)
       /\ pc' = "done" =>
            \A i \in 1..Len(statements') :
                IsNoNode(statements'[i]) \/ CarriesOwnTokens(statements'[i])
      ]_vars

C19_Witness ==
    /\ Returned
    /\ source = "let x = 5;foobar;"
    /\ Len(statements) = 2
    /\ statements[1].Token = stream[1]
    /\ statements[1].Name.Token = stream[2]
    /\ statements[2].Token = stream[6]
    /\ statements[2].Expression.Token = stream[6]

(***************************************************************************)
(* C20: after New returns, both dispatch tables (prefix and infix) are     *)
(* initialized, so registering an entry in either table (registerPrefix or *)
(* registerInfix, for any token kind) succeeds without a crash and the     *)
(* entry is then found by a lookup on that kind.                           *)
(***************************************************************************)
C20_DispatchTablesInitialized ==
    pc # "New" =>
        /\ ~prefixParseFns.isNil
        /\ ~infixParseFns.isNil
        /\ pc # "panic"
        /\ hist.op = "registerPrefix" =>
             hist.arg \in DOMAIN prefixParseFns.entries
        /\ hist.op = "registerInfix" =>
             hist.arg \in DOMAIN infixParseFns.entries

====
